---- MODULE Spec2Model ----
(***************************************************************************)
(* ExecutionTree (mindspore/ccsrc/dataset/engine/execution_tree.cc):       *)
(* node association, root assignment, the prepare pipeline with its legacy *)
(* recursive walk, the postorder iterator, Launch, LaunchWorkers and the   *)
(* destructor.                                                             *)
(*                                                                         *)
(* Operator nodes (DatasetOp) are objects shared between trees and their   *)
(* builder; several trees exist side by side.  Every public method is one  *)
(* action that models the whole call; what the call did on its way         *)
(* (state assignments, phases, hooks, spawn requests) is recorded in       *)
(* `last`, the observation of the most recent call.                        *)
(***************************************************************************)
EXTENDS Integers, Sequences, FiniteSets, TLC

\* ---------------------------------------------------------------- bounds
NumOps == 3
NumTrees == 2
MaxIdCount == 3
MaxTasks == 2
NumIterOps == 4
MaxWorkers == 3

Ops == 1..NumOps
Trees == 1..NumTrees
\* nullptr for a shared_ptr<DatasetOp>, and for the op->tree_ back-reference
NoOp == 0
NoTree == 0

\* ------------------------------------------------------ program constants
kDeTStateInit == 0
kDeTStateBuilding == 1
kDeTStatePrepare == 2
kDeTStateReady == 3
kDeTStateExecuting == 4

kInvalidOperatorId == -1
kDePrepNone == 0

VARIABLES
  tree_state,     \* tree_state_   per tree
  id_count,       \* id_count_     per tree
  root,           \* root_         per tree (NoOp = unset)
  prepare_flags,  \* prepare_flags_ per tree
  tg,             \* tg_ per tree: how many spawn requests it accepted for each task
  operator_id,    \* DatasetOp::operator_id_ per node
  op_tree,        \* DatasetOp::tree_ per node (NoTree = none)
  child,          \* DatasetOp::child_ per node, ordered
  op_state,       \* DatasetOp::state_ per node
  assoc_count,    \* per tree: how many AssociateNode calls assigned an id so far
  exited,         \* tg_ per tree: how many of the tasks it accepted have ended
  lifetime,       \* per tree: "Live", "Stopping" (in its destructor), "Destroyed"
  last            \* observation of the most recent call

vars == <<tree_state, id_count, root, prepare_flags, tg, operator_id, op_tree,
          child, op_state, assoc_count, exited, lifetime, last>>

\* ------------------------------------------------------------- statuses
OK == "OK"
InvalidState == "InvalidState"      \* RETURN_STATUS_UNEXPECTED of a state check
PassFailure == "PassFailure"        \* a rewrite pass returned an error
HookFailure == "HookFailure"        \* a node's prepare hook returned an error
ProfilingFailure == "ProfilingFailure"  \* ProfilingManager::Initialize returned an error
SpawnFailure == "SpawnFailure"      \* TaskGroup::CreateAsyncTask returned an error
Crash == "Crash"                    \* the process died (null dereference)

\* The task bodies a tree hands to its task group: its monitor (0), the nodes,
\* and the worker function bound to a worker index (below 0).
Monitor == 0
WorkerTask(i) == 0 - (i + 1)
WorkerIndex(task) == 0 - (task + 1)
Workers == {WorkerTask(i) : i \in 0..(MaxWorkers - 1)}
Tasks == {Monitor} \cup Ops \cup Workers

NoCall == [op |-> "None", tree |-> NoTree, arg |-> NoOp, status |-> OK,
           states |-> <<>>, pass |-> OK, phases |-> <<>>, hooks |-> <<>>,
           prof |-> FALSE, reqs |-> <<>>, marked |-> <<>>, nodes |-> <<>>,
           num_workers |-> 0]

\* The observation of a call: the method, the tree it was called on, its node
\* argument, the status it returned, and what it did on its way:
\*   states  tree_state_ before the call, then every value the call assigned to it
\*   pass    Prepare: the status the pre-action pass returned
\*   phases  Prepare: the phases entered, in order
\*   hooks   Prepare: the steps of the legacy walk, in order
\*   prof    Launch: whether profiling was enabled
\*   reqs    Launch: the spawn requests issued, in order, with the task group's answer
\*   marked  Launch: the nodes whose state_ was set to Running, in order
\*   nodes   Iterator: nodes_ of the iterator constructed
\*   num_workers  LaunchWorkers: its first argument
Call(name, t, n, st, states) ==
  [NoCall EXCEPT !.op = name, !.tree = t, !.arg = n, !.status = st, !.states = states]

\* Fixed per node type: the nodes with an even number are inlined.
inlined(n) == n % 2 = 0

\* Fixed per node type: the prepare-flag mask a node declares.
PrepareFlags(n) == IF n % 3 = 0 THEN 2 ELSE 1

Init ==
  /\ tree_state = [t \in Trees |-> kDeTStateInit]
  /\ id_count = [t \in Trees |-> 0]
  /\ root = [t \in Trees |-> NoOp]
  /\ prepare_flags = [t \in Trees |-> kDePrepNone]
  /\ tg = [t \in Trees |-> [k \in Tasks |-> 0]]
  /\ operator_id = [n \in Ops |-> kInvalidOperatorId]
  /\ op_tree = [n \in Ops |-> NoTree]
  /\ child = [n \in Ops |-> <<>>]
  /\ op_state = [n \in Ops |-> "Idle"]
  /\ assoc_count = [t \in Trees |-> 0]
  /\ exited = [t \in Trees |-> [k \in Tasks |-> 0]]
  /\ lifetime = [t \in Trees |-> "Live"]
  /\ last = NoCall

\* The process is alive: no call has crashed it.
Alive == last.status # Crash

\* ----------------------------------------------------------- AssociateNode
\* AssociateNode that increments id_count_ before it assigns the id.
AssociateNodeEff_IdAfterIncrement(t, n, ts, idc) ==
  IF op_tree[n] = t
    THEN [status |-> OK, ts |-> ts, idc |-> idc, id |-> operator_id[n],
          tree |-> op_tree[n], states |-> <<>>, assigned |-> FALSE]
  ELSE IF ts # kDeTStateInit /\ ts # kDeTStateBuilding
    THEN [status |-> InvalidState, ts |-> ts, idc |-> idc, id |-> operator_id[n],
          tree |-> op_tree[n], states |-> <<>>, assigned |-> FALSE]
  ELSE [status |-> OK, ts |-> kDeTStateBuilding, idc |-> idc + 1, id |-> idc + 1,
        tree |-> t, states |-> <<kDeTStateBuilding>>, assigned |-> TRUE]

\* AssociateNode without the "already a part of the tree" early return.
AssociateNodeEff_NoMemberCheck(t, n, ts, idc) ==
  IF ts # kDeTStateInit /\ ts # kDeTStateBuilding
    THEN [status |-> InvalidState, ts |-> ts, idc |-> idc, id |-> operator_id[n],
          tree |-> op_tree[n], states |-> <<>>, assigned |-> FALSE]
  ELSE [status |-> OK, ts |-> kDeTStateBuilding, idc |-> idc + 1, id |-> idc,
        tree |-> t, states |-> <<kDeTStateBuilding>>, assigned |-> TRUE]

\* AssociateNode without the tree-state check.
AssociateNodeEff_NoStateCheck(t, n, ts, idc) ==
  IF op_tree[n] = t
    THEN [status |-> OK, ts |-> ts, idc |-> idc, id |-> operator_id[n],
          tree |-> op_tree[n], states |-> <<>>, assigned |-> FALSE]
  ELSE [status |-> OK, ts |-> kDeTStateBuilding, idc |-> idc + 1, id |-> idc,
        tree |-> t, states |-> <<kDeTStateBuilding>>, assigned |-> TRUE]

\* ExecutionTree::AssociateNode(op) on tree t whose state and counter are ts and
\* idc: the status returned and the values the call leaves behind.
AssociateNodeEff(t, n, ts, idc) ==
  IF op_tree[n] = t
    THEN [status |-> OK, ts |-> ts, idc |-> idc, id |-> operator_id[n],
          tree |-> op_tree[n], states |-> <<>>, assigned |-> FALSE]
  ELSE IF ts # kDeTStateInit /\ ts # kDeTStateBuilding
    THEN [status |-> InvalidState, ts |-> ts, idc |-> idc, id |-> operator_id[n],
          tree |-> op_tree[n], states |-> <<>>, assigned |-> FALSE]
  ELSE [status |-> OK, ts |-> kDeTStateBuilding, idc |-> idc + 1, id |-> idc,
        tree |-> t, states |-> <<kDeTStateBuilding>>, assigned |-> TRUE]

\* Writes the values an AssociateNode call left behind into the state.
ApplyAssociate(t, n, e) ==
  /\ tree_state' = [tree_state EXCEPT ![t] = e.ts]
  /\ id_count' = [id_count EXCEPT ![t] = e.idc]
  /\ operator_id' = [operator_id EXCEPT ![n] = e.id]
  /\ op_tree' = [op_tree EXCEPT ![n] = e.tree]
  /\ assoc_count' = IF e.assigned THEN [assoc_count EXCEPT ![t] = @ + 1]
                                  ELSE assoc_count

AssociateNode(t, n) ==
  /\ Alive
  /\ LET e == AssociateNodeEff(t, n, tree_state[t], id_count[t]) IN
       /\ e.assigned => id_count[t] < MaxIdCount
       /\ ApplyAssociate(t, n, e)
       /\ last' = Call("AssociateNode", t, n, e.status, <<tree_state[t]>> \o e.states)
  /\ UNCHANGED <<root, prepare_flags, tg, child, op_state, exited, lifetime>>

\* -------------------------------------------------------------- AssignRoot
\* AssignRoot that accepts every tree state but Init.
AssignRoot_AnyStateButInit(t, n) ==
  /\ Alive
  /\ IF tree_state[t] = kDeTStateInit
       THEN /\ last' = Call("AssignRoot", t, n, InvalidState, <<tree_state[t]>>)
            /\ UNCHANGED <<tree_state, id_count, root, operator_id, op_tree, assoc_count>>
       ELSE /\ root' = [root EXCEPT ![t] = n]
            /\ last' = Call("AssignRoot", t, n, OK, <<tree_state[t]>>)
            /\ UNCHANGED <<tree_state, id_count, operator_id, op_tree, assoc_count>>
  /\ UNCHANGED <<prepare_flags, tg, child, op_state, exited, lifetime>>

AssignRoot(t, n) ==
  /\ Alive
  /\ IF tree_state[t] # kDeTStateBuilding
       THEN /\ last' = Call("AssignRoot", t, n, InvalidState, <<tree_state[t]>>)
            /\ UNCHANGED <<tree_state, id_count, root, operator_id, op_tree, assoc_count>>
       ELSE IF operator_id[n] = kInvalidOperatorId
         THEN LET e == AssociateNodeEff(t, n, tree_state[t], id_count[t]) IN
                /\ e.assigned => id_count[t] < MaxIdCount
                /\ ApplyAssociate(t, n, e)
                /\ root' = IF e.status = OK THEN [root EXCEPT ![t] = n] ELSE root
                /\ last' = Call("AssignRoot", t, n, e.status,
                                <<tree_state[t]>> \o e.states)
         ELSE /\ root' = [root EXCEPT ![t] = n]
              /\ last' = Call("AssignRoot", t, n, OK, <<tree_state[t]>>)
              /\ UNCHANGED <<tree_state, id_count, operator_id, op_tree, assoc_count>>
  /\ UNCHANGED <<prepare_flags, tg, child, op_state, exited, lifetime>>

\* ------------------------------------------------------------------- child_
\* The nodes of the subtree of n (n included), by the child_ links.
RECURSIVE Subtree(_)
Subtree(n) ==
  {n} \cup UNION {Subtree(child[n][i]) : i \in 1..Len(child[n])}

\* ------------------------------------------------------------------ Iterator
\* A traversal that pushes the node before its children.
RECURSIVE PreOrderTraverse(_), PreOrderChildren(_, _)
PreOrderTraverse(node) ==
  IF node = NoOp THEN <<>>
  ELSE <<node>> \o PreOrderChildren(node, 1)

PreOrderChildren(node, i) ==
  IF i > Len(child[node]) THEN <<>>
  ELSE PreOrderTraverse(child[node][i]) \o PreOrderChildren(node, i + 1)

\* ExecutionTree::Iterator::PostOrderTraverse: the nodes it pushes on nodes_.
RECURSIVE PostOrderTraverse(_), PostOrderChildren(_, _)
PostOrderTraverse(node) ==
  IF node = NoOp THEN <<>>
  ELSE PostOrderChildren(node, 1) \o <<node>>

\* The loop over node->child_ from index i on.
PostOrderChildren(node, i) ==
  IF i > Len(child[node]) THEN <<>>
  ELSE PostOrderTraverse(child[node][i]) \o PostOrderChildren(node, i + 1)

\* An iterator constructor that pushes no end sentinel.
Iterator_NoSentinel(r) == PostOrderTraverse(r)

\* Iterator::Iterator(root): nodes_ after construction, the end sentinel last.
Iterator(r) == PostOrderTraverse(r) \o <<NoOp>>

\* The construction of an iterator over the tree below `node` (nullptr: the
\* end iterator).
NewIterator(node) ==
  /\ Alive
  /\ last' = [Call("Iterator", NoTree, node, OK, <<>>) EXCEPT !.nodes = Iterator(node)]
  /\ UNCHANGED <<tree_state, id_count, root, prepare_flags, tg, operator_id,
                 op_tree, child, op_state, assoc_count, exited, lifetime>>

\* -------------------------------------------------------------------- Launch
\* TaskGroup::CreateAsyncTask for `task`: the task group rejects the request
\* number rejectAt of this Launch call (0: it accepts them all).
CreateAsyncTask(s, task, rejectAt) ==
  IF Len(s.reqs) + 1 = rejectAt
    THEN [s EXCEPT !.reqs = Append(@, [task |-> task, ok |-> FALSE]),
                   !.status = SpawnFailure]
    ELSE [s EXCEPT !.reqs = Append(@, [task |-> task, ok |-> TRUE]),
                   !.tasks = Append(@, task)]

\* The loop of Launch with the state_ assignment inside the if, after the spawn.
RECURSIVE LaunchLoop_MarkInsideIf(_, _, _, _)
LaunchLoop_MarkInsideIf(nodes, i, s, rejectAt) ==
  IF nodes[i] = NoOp THEN s
  ELSE LET n == nodes[i]
           s1 == IF ~inlined(n) THEN CreateAsyncTask(s, n, rejectAt) ELSE s
       IN IF s1.status # OK THEN s1
          ELSE LaunchLoop_MarkInsideIf(
                 nodes, i + 1,
                 IF ~inlined(n) THEN [s1 EXCEPT !.marked = Append(@, n)] ELSE s1,
                 rejectAt)

\* A loop of Launch that goes on to the next node after a rejected request.
RECURSIVE LaunchLoop_IgnoreFailure(_, _, _, _)
LaunchLoop_IgnoreFailure(nodes, i, s, rejectAt) ==
  IF nodes[i] = NoOp THEN s
  ELSE LET n == nodes[i]
           s1 == [s EXCEPT !.marked = Append(@, n)]
           s2 == IF ~inlined(n) THEN CreateAsyncTask(s1, n, rejectAt) ELSE s1
       IN LaunchLoop_IgnoreFailure(nodes, i + 1, s2, rejectAt)

\* The loop of Launch over the iterator, from position i on, until the sentinel.
RECURSIVE LaunchLoop(_, _, _, _)
LaunchLoop(nodes, i, s, rejectAt) ==
  IF nodes[i] = NoOp THEN s
  ELSE LET n == nodes[i]
           s1 == [s EXCEPT !.marked = Append(@, n)]
           s2 == IF ~inlined(n) THEN CreateAsyncTask(s1, n, rejectAt) ELSE s1
       IN IF s2.status # OK THEN s2
          ELSE LaunchLoop(nodes, i + 1, s2, rejectAt)

\* The profiling block of Launch.
LaunchProfiling(s, prof, initOk, rejectAt) ==
  IF ~prof THEN s
  ELSE IF ~initOk THEN [s EXCEPT !.status = ProfilingFailure]
  ELSE CreateAsyncTask(s, Monitor, rejectAt)

\* Launch without the tree-state check.
LaunchEff_NoStateCheck(t, prof, initOk, rejectAt) ==
  LET s0 == [status |-> OK, ts |-> tree_state[t], states |-> <<tree_state[t]>>,
             reqs |-> <<>>, tasks |-> <<>>, marked |-> <<>>]
      s1 == LaunchProfiling(s0, prof, initOk, rejectAt)
  IN IF s1.status # OK THEN s1
     ELSE LET s2 == LaunchLoop(Iterator(root[t]), 1, s1, rejectAt) IN
          IF s2.status # OK THEN s2
          ELSE [s2 EXCEPT !.ts = kDeTStateExecuting,
                          !.states = Append(@, kDeTStateExecuting)]

\* ExecutionTree::Launch on tree t: the status returned and what it left behind.
LaunchEff(t, prof, initOk, rejectAt) ==
  LET s0 == [status |-> OK, ts |-> tree_state[t], states |-> <<tree_state[t]>>,
             reqs |-> <<>>, tasks |-> <<>>, marked |-> <<>>] IN
  IF tree_state[t] # kDeTStateReady THEN [s0 EXCEPT !.status = InvalidState]
  ELSE LET s1 == LaunchProfiling(s0, prof, initOk, rejectAt) IN
       IF s1.status # OK THEN s1
       ELSE LET s2 == LaunchLoop(Iterator(root[t]), 1, s1, rejectAt) IN
            IF s2.status # OK THEN s2
            ELSE [s2 EXCEPT !.ts = kDeTStateExecuting,
                            !.states = Append(@, kDeTStateExecuting)]

Range(f) == {f[i] : i \in DOMAIN f}

Count(seq, x) == Cardinality({i \in DOMAIN seq : seq[i] = x})

\* The number of monitor and operator tasks the task group of t holds.
TaskCount(t) ==
  LET RECURSIVE Sum(_)
      Sum(k) == IF k > NumOps THEN 0 ELSE tg[t][k] + Sum(k + 1)
  IN Sum(Monitor)

Launch(t, prof, initOk, rejectAt) ==
  /\ Alive
  /\ tree_state[t] = kDeTStateReady => TaskCount(t) < MaxTasks
  /\ LET s == LaunchEff(t, prof, initOk, rejectAt) IN
       /\ tree_state' = [tree_state EXCEPT ![t] = s.ts]
       /\ tg' = [tg EXCEPT ![t] = [k \in DOMAIN @ |-> @[k] + Count(s.tasks, k)]]
       /\ op_state' = [n \in Ops |-> IF n \in Range(s.marked) THEN "Running"
                                                              ELSE op_state[n]]
       /\ last' = [Call("Launch", t, NoOp, s.status, s.states)
                     EXCEPT !.prof = prof, !.reqs = s.reqs, !.marked = s.marked]
  /\ UNCHANGED <<id_count, root, prepare_flags, operator_id, op_tree, child,
                 assoc_count, exited, lifetime>>

\* ------------------------------------------------------------- LaunchWorkers
\* The number of worker tasks the task group of t holds.
WorkerCount(t) ==
  LET RECURSIVE Sum(_)
      Sum(i) == IF i >= MaxWorkers THEN 0 ELSE tg[t][WorkerTask(i)] + Sum(i + 1)
  IN Sum(0)

\* A loop of LaunchWorkers that goes on after a rejected request.
RECURSIVE LaunchWorkersLoop_IgnoreFailure(_, _, _, _)
LaunchWorkersLoop_IgnoreFailure(i, num_workers, s, rejectAt) ==
  IF i >= num_workers THEN s
  ELSE LaunchWorkersLoop_IgnoreFailure(
         i + 1, num_workers, CreateAsyncTask(s, WorkerTask(i), rejectAt), rejectAt)

\* The loop of LaunchWorkers from index i on.
RECURSIVE LaunchWorkersLoop(_, _, _, _)
LaunchWorkersLoop(i, num_workers, s, rejectAt) ==
  IF i >= num_workers THEN s
  ELSE LET s1 == CreateAsyncTask(s, WorkerTask(i), rejectAt) IN
       IF s1.status # OK THEN s1
       ELSE LaunchWorkersLoop(i + 1, num_workers, s1, rejectAt)

\* ExecutionTree::LaunchWorkers(num_workers, func): called by the thread that
\* owns the tree or by a running task of the tree.
LaunchWorkers(t, num_workers, rejectAt) ==
  /\ Alive
  /\ lifetime[t] # "Destroyed"
  /\ lifetime[t] = "Stopping" => \E k \in Tasks : tg[t][k] > exited[t][k]
  /\ num_workers > 0 => WorkerCount(t) + num_workers <= MaxWorkers
  /\ LET s == LaunchWorkersLoop(0, num_workers,
                                [status |-> OK, reqs |-> <<>>, tasks |-> <<>>],
                                rejectAt)
     IN /\ tg' = [tg EXCEPT ![t] = [k \in DOMAIN @ |-> @[k] + Count(s.tasks, k)]]
        /\ last' = [Call("LaunchWorkers", t, NoOp, s.status, <<tree_state[t]>>)
                      EXCEPT !.reqs = s.reqs, !.num_workers = num_workers]
  /\ UNCHANGED <<tree_state, id_count, root, prepare_flags, operator_id, op_tree,
                 child, op_state, assoc_count, exited, lifetime>>

\* ------------------------------------------------------------- ~ExecutionTree
\* A running task of the task group of t ends: its body returns, or it
\* notices the interrupt of a stop-all.
TaskExit(t, k) ==
  /\ Alive
  /\ lifetime[t] # "Destroyed"
  /\ tg[t][k] > exited[t][k]
  /\ exited' = [exited EXCEPT ![t][k] = @ + 1]
  /\ UNCHANGED <<tree_state, id_count, root, prepare_flags, tg, operator_id,
                 op_tree, child, op_state, assoc_count, lifetime, last>>

\* A destructor that issues no stop-all: the tree is gone when it returns.
Destructor_NoServiceStop(t) ==
  /\ Alive
  /\ lifetime[t] = "Live"
  /\ lifetime' = [lifetime EXCEPT ![t] = "Destroyed"]
  /\ last' = Call("~ExecutionTree", t, NoOp, OK, <<tree_state[t]>>)
  /\ UNCHANGED <<tree_state, id_count, root, prepare_flags, tg, operator_id,
                 op_tree, child, op_state, assoc_count, exited>>

\* ExecutionTree::~ExecutionTree: the call of tg_->ServiceStop().
Destructor(t) ==
  /\ Alive
  /\ lifetime[t] = "Live"
  /\ lifetime' = [lifetime EXCEPT ![t] = "Stopping"]
  /\ last' = Call("~ExecutionTree", t, NoOp, OK, <<tree_state[t]>>)
  /\ UNCHANGED <<tree_state, id_count, root, prepare_flags, tg, operator_id,
                 op_tree, child, op_state, assoc_count, exited>>

\* TaskGroup::ServiceStop returns, once every task of the group has ended; the
\* destructor drops its status and the tree is gone.
ServiceStopReturns(t) ==
  /\ Alive
  /\ lifetime[t] = "Stopping"
  /\ \A k \in Tasks : tg[t][k] = exited[t][k]
  /\ lifetime' = [lifetime EXCEPT ![t] = "Destroyed"]
  /\ UNCHANGED <<tree_state, id_count, root, prepare_flags, tg, operator_id,
                 op_tree, child, op_state, assoc_count, exited, last>>

\* ------------------------------------------------------------------- Prepare
RECURSIVE BitSet(_, _), BitClear(_, _)
\* BitSet(&bits, mask): bits | mask
BitSet(bits, mask) ==
  IF bits = 0 THEN mask
  ELSE IF mask = 0 THEN bits
  ELSE (IF bits % 2 = 1 \/ mask % 2 = 1 THEN 1 ELSE 0)
       + 2 * BitSet(bits \div 2, mask \div 2)

\* BitClear(&bits, mask): bits & ~mask
BitClear(bits, mask) ==
  IF bits = 0 THEN 0
  ELSE (IF bits % 2 = 1 /\ mask % 2 = 0 THEN 1 ELSE 0)
       + 2 * BitClear(bits \div 2, mask \div 2)

\* One step of the walk, as recorded in the call's observation: the event, its
\* node and prepare_flags_ right after it.
Event(ev, n, flags) == [ev |-> ev, op |-> n, flags |-> flags]

NoFail == <<"none", NoOp>>
\* The hook that returns an error in this walk, if any.
HookFails == {NoFail} \cup ({"pre", "post"} \X Ops)

RECURSIVE PrepareNode(_, _, _), PrepareChildren(_, _, _, _)

\* PrepareNode that does not clear the node's flags after its post-action.
PrepareNode_NoClear(n, s, fail) ==
  LET s1 == [s EXCEPT !.hooks = Append(@, Event("pre", n, s.flags))] IN
  IF fail = <<"pre", n>> THEN [s1 EXCEPT !.status = HookFailure]
  ELSE
    LET f2 == BitSet(s1.flags, PrepareFlags(n))
        s2 == [s1 EXCEPT !.flags = f2, !.hooks = Append(@, Event("set", n, f2))]
        s3 == PrepareChildren(n, 1, s2, fail)
    IN IF s3.status # OK THEN s3
       ELSE
         LET s4 == [s3 EXCEPT !.hooks = Append(@, Event("post", n, s3.flags))] IN
         IF fail = <<"post", n>> THEN [s4 EXCEPT !.status = HookFailure]
         ELSE [s4 EXCEPT !.hooks = Append(@, Event("clear", n, s4.flags))]

\* ExecutionTree::PrepareNode(dataset_op) from call state s.
PrepareNode(n, s, fail) ==
  LET s1 == [s EXCEPT !.hooks = Append(@, Event("pre", n, s.flags))] IN
  IF fail = <<"pre", n>> THEN [s1 EXCEPT !.status = HookFailure]
  ELSE
    LET f2 == BitSet(s1.flags, PrepareFlags(n))
        s2 == [s1 EXCEPT !.flags = f2, !.hooks = Append(@, Event("set", n, f2))]
        s3 == PrepareChildren(n, 1, s2, fail)
    IN IF s3.status # OK THEN s3
       ELSE
         LET s4 == [s3 EXCEPT !.hooks = Append(@, Event("post", n, s3.flags))] IN
         IF fail = <<"post", n>> THEN [s4 EXCEPT !.status = HookFailure]
         ELSE LET f5 == BitClear(s4.flags, PrepareFlags(n)) IN
              [s4 EXCEPT !.flags = f5, !.hooks = Append(@, Event("clear", n, f5))]

\* A loop of PrepareNode that descends into the last child first.
PrepareChildren_LastFirst(n, i, s, fail) ==
  IF i > Len(child[n]) THEN s
  ELSE LET s1 == PrepareChildren(n, i + 1, s, fail) IN
       IF s1.status # OK THEN s1
       ELSE PrepareNode(child[n][i], s1, fail)

\* The loop of PrepareNode over dataset_op->child_, from index i on.
PrepareChildren(n, i, s, fail) ==
  IF i > Len(child[n]) THEN s
  ELSE LET s1 == PrepareNode(child[n][i], s, fail) IN
       IF s1.status # OK THEN s1
       ELSE PrepareChildren(n, i + 1, s1, fail)

\* What dereferencing a null root_ in PrepareNode can do: the process dies, or
\* the call through the null pointer comes back with a garbage error status.
NullDerefOutcomes == {Crash, HookFailure}

\* PrepareTreePreAction that drops the status of the pass.
PrepareTreePreAction_IgnoreFailure(s, passOk) ==
  [s EXCEPT !.phases = Append(@, "PreAction")]

\* The only pre-action pass is the RemovalPass; its Run succeeds or reports a failure.
PrepareTreePreAction(s, passOk) ==
  LET s1 == [s EXCEPT !.phases = Append(@, "PreAction")] IN
  IF passOk THEN s1 ELSE [s1 EXCEPT !.status = PassFailure]

Optimize(s) == [s EXCEPT !.phases = Append(@, "Optimize")]

PrepareTreePostAction(s) ==
  [s EXCEPT !.phases = Append(@, "PostAction"),
            !.ts = kDeTStatePrepare,
            !.states = Append(@, kDeTStatePrepare)]

PrepareDeprecated(t, s, fail, ub) ==
  LET s1 == [s EXCEPT !.phases = Append(@, "Deprecated")] IN
  IF s1.ts # kDeTStatePrepare THEN [s1 EXCEPT !.status = InvalidState]
  ELSE IF root[t] = NoOp THEN [s1 EXCEPT !.status = ub]
  ELSE LET s2 == PrepareNode(root[t], s1, fail) IN
       IF s2.status # OK THEN s2
       ELSE [s2 EXCEPT !.ts = kDeTStateReady,
                       !.states = Append(@, kDeTStateReady)]

\* ExecutionTree::Prepare on tree t: the status returned and what it left behind.
PrepareEff(t, passOk, fail, ub) ==
  LET s0 == [status |-> OK, ts |-> tree_state[t], states |-> <<tree_state[t]>>,
             flags |-> prepare_flags[t], phases |-> <<>>, hooks |-> <<>>]
      s1 == PrepareTreePreAction(s0, passOk)
  IN IF s1.status # OK THEN s1
     ELSE LET s2 == Optimize(s1) IN
          IF s2.status # OK THEN s2
          ELSE LET s3 == PrepareTreePostAction(s2) IN
               IF s3.status # OK THEN s3
               ELSE PrepareDeprecated(t, s3, fail, ub)

Prepare(t, passOk, fail, ub) ==
  /\ Alive
  /\ LET s == PrepareEff(t, passOk, fail, ub) IN
       /\ tree_state' = [tree_state EXCEPT ![t] = s.ts]
       /\ prepare_flags' = [prepare_flags EXCEPT ![t] = s.flags]
       /\ last' = [Call("Prepare", t, NoOp, s.status, s.states)
                     EXCEPT !.pass = IF passOk THEN OK ELSE PassFailure,
                            !.phases = s.phases, !.hooks = s.hooks]
  /\ UNCHANGED <<id_count, root, tg, operator_id, op_tree, child, op_state,
                 assoc_count, exited, lifetime>>

\* ------------------------------------------------------------ specifications
\* The tree whose whole life cycle the caller drives.
MainTree == CHOOSE t \in Trees : \A u \in Trees : t <= u

\* The nodes reachable from the root of t.
Reachable(t) == IF root[t] = NoOp THEN {} ELSE Subtree(root[t])

\* The inputs of a Prepare call that the call reads: the hook that fails, among
\* the hooks of the nodes below the root, and what a null root_ leads to.
HooksRead(t) ==
  IF root[t] = NoOp THEN {NoFail}
  ELSE {NoFail} \cup ({"pre", "post"} \X Subtree(root[t]))

OutcomesRead(t) == IF root[t] = NoOp THEN NullDerefOutcomes ELSE {Crash}

\* The requests of a Launch call that the task group can reject (0: none).
RejectsRead(t, prof) ==
  IF tree_state[t] # kDeTStateReady THEN {0}
  ELSE 0..((IF prof THEN 1 ELSE 0)
           + Cardinality({n \in Reachable(t) : ~inlined(n)}))

\* Every call on the tree, in any order, with every answer of the pass, the
\* hooks, the profiling manager and the task group.
Next ==
  \/ \E n \in Ops : AssociateNode(MainTree, n)
  \/ \E n \in Ops : AssignRoot(MainTree, n)
  \/ Prepare(MainTree, FALSE, NoFail, Crash)
  \/ \E fail \in HooksRead(MainTree), ub \in OutcomesRead(MainTree) :
       Prepare(MainTree, TRUE, fail, ub)
  \/ \E rejectAt \in RejectsRead(MainTree, FALSE) :
       Launch(MainTree, FALSE, TRUE, rejectAt)
  \/ /\ tree_state[MainTree] = kDeTStateReady
     /\ \/ Launch(MainTree, TRUE, FALSE, 0)
        \/ \E rejectAt \in RejectsRead(MainTree, TRUE) :
             Launch(MainTree, TRUE, TRUE, rejectAt)

\* One tree from its construction on; the builder links no node to another, so
\* the tree below the root is the root alone.
Spec == Init /\ [][Next]_vars

\* The position of node n in the sequence order.
Position(order, n) == CHOOSE i \in DOMAIN order : order[i] = n

\* The members of set S as a sequence, in the order they have in `order`.
RECURSIVE InOrder(_, _)
InOrder(S, order) ==
  IF S = {} THEN <<>>
  ELSE LET first == CHOOSE n \in S :
                      \A m \in S : Position(order, n) <= Position(order, m)
       IN <<first>> \o InOrder(S \ {first}, order)

\* The orders in which the builder can have created the nodes S.
OrdersOf(S) ==
  {o \in [1..Cardinality(S) -> S] : \A n \in S : \E i \in 1..Cardinality(S) : o[i] = n}

\* Following parent links from n for k steps leads to the node r.
RECURSIVE LeadsTo(_, _, _, _)
LeadsTo(parent, n, r, k) ==
  \/ n = r
  \/ k > 0 /\ parent[n] # NoOp /\ LeadsTo(parent, parent[n], r, k - 1)

\* The trees a builder hands over when it has created the nodes S: it
\* associated the nodes it used in the order of their numbers (AssociateNode),
\* linked them into one tree, the children of a node in any order
\* (DatasetOp::AddChild), and made the top node the root (AssignRoot).  Nodes it
\* did not use are left unassociated.
Built(S) ==
  \E r \in S : \E parent \in [S -> S \cup {NoOp}] :
    LET used == {n \in S : LeadsTo(parent, n, r, Cardinality(S))} IN
    /\ parent[r] = NoOp
    /\ \A n \in S \ used : parent[n] = NoOp
    /\ \E order \in OrdersOf(S) :
         /\ tree_state = [t \in Trees |-> IF t = MainTree THEN kDeTStateBuilding
                                                         ELSE kDeTStateInit]
         /\ id_count = [t \in Trees |-> IF t = MainTree THEN Cardinality(used) ELSE 0]
         /\ assoc_count = id_count
         /\ root = [t \in Trees |-> IF t = MainTree THEN r ELSE NoOp]
         /\ prepare_flags = [t \in Trees |-> kDePrepNone]
         /\ tg = [t \in Trees |-> [k \in {Monitor} \cup S \cup Workers |-> 0]]
         /\ exited = tg
         /\ lifetime = [t \in Trees |-> "Live"]
         /\ operator_id = [n \in S |->
                             IF n \in used THEN Cardinality({m \in used : m < n})
                                           ELSE kInvalidOperatorId]
         /\ op_tree = [n \in S |-> IF n \in used THEN MainTree ELSE NoTree]
         /\ child = [p \in S |-> InOrder({c \in S : parent[c] = p}, order)]
         /\ op_state = [n \in S |-> "Idle"]
         /\ last = NoCall

InitBuilt == Built(Ops)

\* One tree that a builder has built, then every call in any order.
SpecRun == InitBuilt /\ [][Next]_vars

\* Several trees associating and rooting the same nodes.
NextTrees ==
  \/ \E t \in Trees, n \in Ops : AssociateNode(t, n)
  \/ \E t \in Trees, n \in Ops : AssignRoot(t, n)

SpecTrees == Init /\ [][NextTrees]_vars

\* The tree after AssociateNode(r), AssignRoot(r) and a successful Prepare.
InitReady ==
  \E r \in Ops :
    /\ tree_state = [t \in Trees |-> IF t = MainTree THEN kDeTStateReady
                                                    ELSE kDeTStateInit]
    /\ id_count = [t \in Trees |-> IF t = MainTree THEN 1 ELSE 0]
    /\ assoc_count = id_count
    /\ root = [t \in Trees |-> IF t = MainTree THEN r ELSE NoOp]
    /\ prepare_flags = [t \in Trees |-> kDePrepNone]
    /\ tg = [t \in Trees |-> [k \in Tasks |-> 0]]
    /\ exited = tg
    /\ lifetime = [t \in Trees |-> "Live"]
    /\ operator_id = [n \in Ops |-> IF n = r THEN 0 ELSE kInvalidOperatorId]
    /\ op_tree = [n \in Ops |-> IF n = r THEN MainTree ELSE NoTree]
    /\ child = [n \in Ops |-> <<>>]
    /\ op_state = [n \in Ops |-> "Idle"]
    /\ last = NoCall

\* A prepared tree to its destruction: the caller launches it, the caller and
\* the running tasks start workers, tasks end at any time, and the caller
\* destroys the tree while tasks still run.
NextLife ==
  \/ /\ lifetime[MainTree] = "Live"
     /\ \E prof \in BOOLEAN : \E rejectAt \in RejectsRead(MainTree, prof) :
          Launch(MainTree, prof, TRUE, rejectAt)
  \/ \E num_workers \in -1..MaxWorkers : \E rejectAt \in 0..num_workers :
       LaunchWorkers(MainTree, num_workers, rejectAt)
  \/ \E k \in Tasks : TaskExit(MainTree, k)
  \/ Destructor(MainTree)
  \/ ServiceStopReturns(MainTree)

SpecLife == InitReady /\ [][NextLife]_vars

\* The nodes of the trees that iterators are constructed over.
IterOps == 1..NumIterOps

InitIter == Built(IterOps)

\* Iterators constructed over the tree below any node, and end iterators.
NextIter == \E node \in IterOps \cup {NoOp} : NewIterator(node)

SpecIter == InitIter /\ [][NextIter]_vars

\* -------------------------------------------------------------------- claims
\* Every variable but the observation keeps its value.
OnlyLastChanges ==
  UNCHANGED <<tree_state, id_count, root, prepare_flags, tg, operator_id,
              op_tree, child, op_state, assoc_count, exited, lifetime>>

\* How many spawn requests of the last Launch were for task k.
ReqCount(k) == Cardinality({i \in DOMAIN last.reqs : last.reqs[i].task = k})

\* C1: over any sequence of calls the tree state only moves forward along
\* Init -> Building -> Prepare -> Ready -> Executing, one step at a time: every
\* value a call assigns to tree_state_ is the value it had or the next one, so
\* it never goes back, never skips a state and never leaves Executing.
C1_StateOnlyMovesForward ==
  \A i \in 1..(Len(last.states) - 1) :
    \/ last.states[i + 1] = last.states[i]
    \/ last.states[i + 1] = last.states[i] + 1

\* C2: Launch in a tree state other than Ready fails with an invalid-state
\* error, issues no spawn request, marks no node Running and changes nothing.
C2_LaunchOutsideReadyFails ==
  [][(last'.op = "Launch" /\ tree_state[last'.tree] # kDeTStateReady)
       => /\ last'.status = InvalidState
          /\ last'.reqs = <<>>
          /\ last'.marked = <<>>
          /\ OnlyLastChanges]_vars

\* A second Launch after a successful one that spawned tasks was refused.
C2_Witness ==
  /\ last.op = "Launch"
  /\ last.status = InvalidState
  /\ tree_state[MainTree] = kDeTStateExecuting
  /\ TaskCount(MainTree) > 0

\* C3: Launch from Ready with profiling disabled and every spawn request
\* accepted issues exactly one request per non-inlined node reachable from the
\* root and none for any other node, marks every reachable node Running and
\* leaves the tree Executing.
C3_LaunchSpawnsOnePerNonInlinedNode ==
  (/\ last.op = "Launch"
   /\ last.states[1] = kDeTStateReady
   /\ ~last.prof
   /\ \A i \in DOMAIN last.reqs : last.reqs[i].ok)
  => /\ last.status = OK
     /\ \A n \in Ops :
          ReqCount(n) = IF n \in Reachable(last.tree) /\ ~inlined(n) THEN 1 ELSE 0
     /\ ReqCount(Monitor) = 0
     /\ \A n \in Reachable(last.tree) :
          n \in Range(last.marked) /\ op_state[n] = "Running"
     /\ tree_state[last.tree] = kDeTStateExecuting

\* A successful Launch of a three-node tree with inlined and non-inlined nodes.
C3_Witness ==
  /\ last.op = "Launch"
  /\ last.status = OK
  /\ ~last.prof
  /\ Cardinality(Reachable(MainTree)) = 3
  /\ \E n \in Reachable(MainTree) : inlined(n)
  /\ Len(last.reqs) = 2

\* C4: the spawn requests of a Launch are issued in postorder: the request for
\* a node comes after the requests for all its non-inlined descendants, and
\* the subtree of an earlier child is spawned completely before any node of a
\* later child of the same parent (a parent that the traversal reaches).
C4_SpawnRequestsInPostorder ==
  last.op = "Launch" =>
    /\ \A j \in DOMAIN last.reqs :
         LET n == last.reqs[j].task IN
         n # Monitor =>
           \A d \in Subtree(n) \ {n} :
             ~inlined(d) => \E i \in 1..(j - 1) : last.reqs[i].task = d
    /\ \A p \in Reachable(last.tree) : \A a, b \in 1..Len(child[p]) :
         a < b =>
           \A j \in DOMAIN last.reqs :
             last.reqs[j].task \in Subtree(child[p][b]) =>
               \A x \in Subtree(child[p][a]) :
                 ~inlined(x) => \E i \in 1..(j - 1) : last.reqs[i].task = x

\* A Launch spawned two non-inlined siblings, the one stored first (which has
\* the larger node number) first.
C4_Witness ==
  /\ last.op = "Launch"
  /\ \E p \in Ops :
       /\ Len(child[p]) = 2
       /\ child[p][1] > child[p][2]
       /\ Len(last.reqs) = 2
       /\ last.reqs[1].task = child[p][1]
       /\ last.reqs[2].task = child[p][2]

\* C5: the k-th association of a tree hands out id k-1: the id counter equals
\* the number of associations so far, the node associated last holds the
\* counter's previous value, and the nodes of one tree hold distinct ids below
\* the counter.
C5_IdsCountAssociations ==
  /\ \A t \in Trees : id_count[t] = assoc_count[t]
  /\ \A n \in Ops :
       op_tree[n] # NoTree =>
         operator_id[n] >= 0 /\ operator_id[n] < id_count[op_tree[n]]
  /\ \A n, m \in Ops :
       (n # m /\ op_tree[n] # NoTree /\ op_tree[n] = op_tree[m])
         => operator_id[n] # operator_id[m]
  /\ (last.op \in {"AssociateNode", "AssignRoot"} /\ Len(last.states) = 2)
       => /\ op_tree[last.arg] = last.tree
          /\ operator_id[last.arg] = assoc_count[last.tree] - 1

\* Three nodes associated with one tree, the node with the largest number first.
C5_Witness ==
  \E t \in Trees :
    /\ assoc_count[t] = 3
    /\ \A n \in Ops : op_tree[n] = t
    /\ operator_id[3] = 0
    /\ operator_id[1] = 2

\* C6: AssociateNode on a node that already belongs to the tree succeeds and
\* changes nothing, in every tree state.
C6_AssociateNodeIdempotent ==
  [][(last'.op = "AssociateNode" /\ op_tree[last'.arg] = last'.tree)
       => (last'.status = OK /\ OnlyLastChanges)]_vars

\* AssociateNode on a node of the tree returned OK while the tree was Executing.
C6_Witness ==
  /\ last.op = "AssociateNode"
  /\ last.status = OK
  /\ op_tree[last.arg] = MainTree
  /\ tree_state[MainTree] = kDeTStateExecuting

\* C7: once a node has an id and a tree back-reference, no AssociateNode or
\* AssignRoot call on any tree changes them, and a tree's root is a node that
\* the tree owns, so that no node is owned by or the root of two trees.
C7_IdAndTreeSetOnce ==
  [][/\ \A n \in Ops :
          op_tree[n] # NoTree =>
            op_tree'[n] = op_tree[n] /\ operator_id'[n] = operator_id[n]
     /\ \A t \in Trees : root'[t] # NoOp => op_tree'[root'[t]] = t]_vars

\* C8: AssignRoot outside Building fails with an invalid-state error and
\* changes nothing; it succeeds only in Building.
C8_AssignRootOnlyInBuilding ==
  [][last'.op = "AssignRoot"
       => /\ tree_state[last'.tree] # kDeTStateBuilding
               => (last'.status = InvalidState /\ OnlyLastChanges)
          /\ last'.status = OK => tree_state[last'.tree] = kDeTStateBuilding]_vars

\* AssignRoot was refused on a tree that is Ready and has a root.
C8_Witness ==
  /\ last.op = "AssignRoot"
  /\ last.status = InvalidState
  /\ tree_state[MainTree] = kDeTStateReady
  /\ root[MainTree] # last.arg

\* C9: AssociateNode with a node that does not belong to the tree, in state
\* Prepare, Ready or Executing, fails with an invalid-state error and changes
\* nothing.
C9_AssociateNodeAfterBuildFails ==
  [][(/\ last'.op = "AssociateNode"
      /\ op_tree[last'.arg] # last'.tree
      /\ tree_state[last'.tree] \in
           {kDeTStatePrepare, kDeTStateReady, kDeTStateExecuting})
       => (last'.status = InvalidState /\ OnlyLastChanges)]_vars

\* AssociateNode with a node outside the tree was refused while it was Executing.
C9_Witness ==
  /\ last.op = "AssociateNode"
  /\ last.status = InvalidState
  /\ op_tree[last.arg] # MainTree
  /\ tree_state[MainTree] = kDeTStateExecuting

\* C10: when the pre-action pass reports a failure, Prepare returns that
\* failure, enters no later phase, assigns no tree state and invokes no hook.
C10_PreActionFailureStopsPrepare ==
  (last.op = "Prepare" /\ last.pass # OK)
    => /\ last.status = last.pass
       /\ last.phases = <<"PreAction">>
       /\ last.hooks = <<>>
       /\ last.states = <<tree_state[last.tree]>>

\* The pass failed in a Prepare call on a built tree with a root.
C10_Witness ==
  /\ last.op = "Prepare"
  /\ last.pass = PassFailure
  /\ tree_state[MainTree] = kDeTStateBuilding
  /\ root[MainTree] # NoOp

\* ------------------------------------------------------ the legacy walk
\* bits & mask
BitAnd(bits, mask) == BitClear(bits, BitClear(bits, mask))

\* The steps of the walk of the last Prepare call.
Steps == DOMAIN last.hooks

\* Node x is on the active path right after step k of the walk: its pre-action
\* has run and it has merged its flags, and its clear step has not run.
OnActivePath(x, k) ==
  /\ \E i \in 1..k : last.hooks[i].ev = "set" /\ last.hooks[i].op = x
  /\ ~\E i \in 1..k : last.hooks[i].ev = "clear" /\ last.hooks[i].op = x

\* C11: when node X declares a flag bit and its child Y declares the same bit,
\* the bit is still set in prepare_flags_ after Y's clear step, and at every
\* later step for which X is on the active path (X's later children and X's
\* own post-action hook).
C11_SharedFlagSurvivesChildClear ==
  last.op = "Prepare" =>
    \A j \in Steps : \A x \in Ops :
      LET y == last.hooks[j].op
          F == BitAnd(PrepareFlags(x), PrepareFlags(y))
      IN (/\ last.hooks[j].ev = "clear"
          /\ \E c \in DOMAIN child[x] : child[x][c] = y
          /\ F # 0)
         => \A k \in Steps :
              (k >= j /\ OnActivePath(x, k))
                => BitAnd(last.hooks[k].flags, F) = F

\* How many steps of the walk are the event ev of node n.
StepCount(ev, n) ==
  Cardinality({i \in Steps : last.hooks[i].ev = ev /\ last.hooks[i].op = n})

\* The step of the walk that is the event ev of node n (0: none).
StepOf(ev, n) ==
  IF \E i \in Steps : last.hooks[i].ev = ev /\ last.hooks[i].op = n
    THEN CHOOSE i \in Steps : last.hooks[i].ev = ev /\ last.hooks[i].op = n
    ELSE 0

\* The bits that the nodes of S declare.
RECURSIVE MaskOf(_)
MaskOf(S) ==
  IF S = {} THEN 0
  ELSE LET n == CHOOSE m \in S : TRUE
       IN BitSet(PrepareFlags(n), MaskOf(S \ {n}))

\* C15: in a successful walk every node reachable from the root has its
\* pre-action hook and its post-action hook invoked once each and no other
\* node has a hook invoked; a node's pre-action hook precedes the hooks of its
\* descendants, its post-action hook follows theirs, and the subtree of an
\* earlier child is finished before the subtree of a later child is entered.
C15_WalkVisitsEveryNodeOnce ==
  (last.op = "Prepare" /\ last.status = OK) =>
    LET R == Reachable(last.tree) IN
    /\ \A n \in DOMAIN child :
         /\ StepCount("pre", n) = (IF n \in R THEN 1 ELSE 0)
         /\ StepCount("post", n) = (IF n \in R THEN 1 ELSE 0)
    /\ \A n \in R : \A d \in Subtree(n) \ {n} :
         /\ StepOf("pre", n) < StepOf("pre", d)
         /\ StepOf("post", d) < StepOf("post", n)
    /\ \A p \in R : \A a, b \in DOMAIN child[p] :
         a < b => \A x \in Subtree(child[p][a]), y \in Subtree(child[p][b]) :
                    StepOf("post", x) < StepOf("pre", y)

\* A successful walk of a root with two children, the one with the larger
\* number stored first.
C15_Witness ==
  /\ last.op = "Prepare"
  /\ last.status = OK
  /\ tree_state[MainTree] = kDeTStateReady
  /\ Len(child[root[MainTree]]) = 2
  /\ child[root[MainTree]][1] > child[root[MainTree]][2]

\* C16: in a walk that started with prepare_flags_ at zero, after every step
\* each bit set in prepare_flags_ is declared by a node on the active path; a
\* bit declared only inside a finished subtree is not seen by a later sibling.
C16_FlagsComeFromActivePath ==
  (last.op = "Prepare" /\ Len(last.hooks) > 0 /\ last.hooks[1].flags = 0) =>
    \A k \in Steps :
      BitClear(last.hooks[k].flags,
               MaskOf({x \in DOMAIN child : OnActivePath(x, k)})) = 0

\* A walk from zero flags of a root with two children, where the first child
\* declares a bit that neither the root nor the second child declares.
C16_Witness ==
  /\ last.op = "Prepare"
  /\ last.status = OK
  /\ last.hooks[1].flags = 0
  /\ LET r == root[MainTree] IN
       /\ Len(child[r]) = 2
       /\ BitAnd(PrepareFlags(child[r][1]), PrepareFlags(r)) = 0
       /\ BitAnd(PrepareFlags(child[r][1]), PrepareFlags(child[r][2])) = 0

\* C17: when a hook returns an error during the walk, that hook is the last
\* step of the walk, Prepare returns the error, the tree state is Prepare and
\* was never set to Ready (so Launch fails whatever its inputs), and every bit
\* that a node on the active path has merged is still set in prepare_flags_.
C17_HookFailureAbortsWalk ==
  (last.op = "Prepare" /\ last.status = HookFailure /\ Len(last.hooks) > 0) =>
    LET t == last.tree
        end == Len(last.hooks)
        active == {x \in DOMAIN child : OnActivePath(x, end)}
    IN /\ last.hooks[end].ev \in {"pre", "post"}
       /\ \A i \in 1..(end - 1) : \A j \in (i + 1)..end :
            ~(/\ last.hooks[i].ev \in {"pre", "post"}
              /\ last.hooks[i].ev = last.hooks[j].ev
              /\ last.hooks[i].op = last.hooks[j].op)
       /\ tree_state[t] = kDeTStatePrepare
       /\ \A i \in DOMAIN last.states : last.states[i] # kDeTStateReady
            \/ i = 1
       /\ \A prof \in BOOLEAN, initOk \in BOOLEAN, rejectAt \in 0..(NumOps + 1) :
            LaunchEff(t, prof, initOk, rejectAt).status = InvalidState
       /\ prepare_flags[t] = last.hooks[end].flags
       /\ BitAnd(prepare_flags[t], MaskOf(active)) = MaskOf(active)

\* ------------------------------------------------------------ the iterator
\* The position of node n in the sequence seq (0: absent).
IndexOf(seq, n) ==
  IF \E i \in DOMAIN seq : seq[i] = n
    THEN CHOOSE i \in DOMAIN seq : seq[i] = n
    ELSE 0

\* C12: the iterator built from a root yields each node reachable from it
\* exactly once and no other node, every node after all nodes of its subtree,
\* the subtrees of a node's children one after another in stored order, and
\* then a single end sentinel; for root R with children [A, B] where A has
\* child [C] it yields C, A, B, R, and for a null root the sentinel alone.
C12_IteratorYieldsPostorder ==
  last.op = "Iterator" =>
    LET seq == last.nodes
        r == last.arg
        below == IF r = NoOp THEN {} ELSE Subtree(r)
    IN /\ Len(seq) = Cardinality(below) + 1
       /\ seq[Len(seq)] = NoOp
       /\ \A n \in below : Count(seq, n) = 1
       /\ \A i \in 1..(Len(seq) - 1) : seq[i] \in below
       /\ \A n \in below : \A d \in Subtree(n) \ {n} :
            IndexOf(seq, d) < IndexOf(seq, n)
       /\ \A p \in below : \A a, b \in DOMAIN child[p] :
            a < b => \A x \in Subtree(child[p][a]), y \in Subtree(child[p][b]) :
                       IndexOf(seq, x) < IndexOf(seq, y)
       /\ r = NoOp => seq = <<NoOp>>
       /\ \A A, B, C \in DOMAIN child :
            (/\ r # NoOp
             /\ child[r] = <<A, B>>
             /\ child[A] = <<C>>
             /\ child[B] = <<>>
             /\ child[C] = <<>>)
              => seq = <<C, A, B, r, NoOp>>

\* An iterator was built from a root R with children [A, B] where A has the
\* child [C], with C created after B and A after R.
C12_Witness ==
  /\ last.op = "Iterator"
  /\ last.arg # NoOp
  /\ Len(child[last.arg]) = 2
  /\ LET A == child[last.arg][1]
         B == child[last.arg][2]
     IN /\ Len(child[A]) = 1
        /\ child[B] = <<>>
        /\ child[A][1] > B
        /\ A > last.arg
        /\ Len(last.nodes) = 5

\* ------------------------------------------------- workers and teardown
\* C13: LaunchWorkers(n, fn) requests the workers 0, 1, ..., n-1 in increasing
\* order, each index once; when the task group rejects the request for index
\* i, no request follows it and the rejection is returned (for n = 3 and a
\* rejection at index 1 the requests are for the indices 0 and 1 only).
C13_LaunchWorkersInIndexOrder ==
  last.op = "LaunchWorkers" =>
    LET n == last.num_workers
        reqs == last.reqs
    IN /\ \A j \in DOMAIN reqs : reqs[j].task = WorkerTask(j - 1)
       /\ \A j \in 1..(Len(reqs) - 1) : reqs[j].ok
       /\ Len(reqs) <= (IF n > 0 THEN n ELSE 0)
       /\ IF \A j \in DOMAIN reqs : reqs[j].ok
            THEN last.status = OK /\ Len(reqs) = (IF n > 0 THEN n ELSE 0)
            ELSE last.status = SpawnFailure
       /\ (n = 3 /\ Len(reqs) >= 2 /\ ~reqs[2].ok)
            => /\ Len(reqs) = 2
               /\ WorkerIndex(reqs[1].task) = 0
               /\ WorkerIndex(reqs[2].task) = 1

\* LaunchWorkers(3, fn) whose request for index 1 was rejected.
C13_Witness ==
  /\ last.op = "LaunchWorkers"
  /\ last.num_workers = 3
  /\ last.status = SpawnFailure
  /\ Len(last.reqs) = 2
  /\ last.reqs[1].ok
  /\ ~last.reqs[2].ok

C18_RejectedSpawnAbortsLaunch ==
  [][(last'.op = "Launch" /\ \E j \in DOMAIN last'.reqs : ~last'.reqs[j].ok)
       => LET reqs == last'.reqs
              end == Len(reqs)
              t == last'.tree
              nodes == Iterator(root[t])
              visited == IF reqs[end].task = Monitor THEN <<>>
                         ELSE SubSeq(nodes, 1, IndexOf(nodes, reqs[end].task))
          IN /\ last'.status = SpawnFailure
             /\ \A j \in 1..(end - 1) : reqs[j].ok
             /\ last'.marked = visited
             /\ \A n \in DOMAIN op_state :
                  op_state'[n] = IF n \in Range(visited) THEN "Running"
                                                         ELSE op_state[n]
             /\ tree_state[t] = kDeTStateReady
             /\ tree_state' = tree_state
             /\ last'.states = <<kDeTStateReady>>
             /\ \A k \in DOMAIN tg[t] :
                  tg'[t][k] = tg[t][k]
                    + Cardinality({j \in 1..(end - 1) : reqs[j].task = k})
             /\ exited' = exited]_vars

\* A Launch whose second request was rejected, before the last node of the tree.
C18_Witness ==
  /\ last.op = "Launch"
  /\ last.status = SpawnFailure
  /\ Len(last.reqs) = 2
  /\ last.reqs[1].task # Monitor
  /\ tg[MainTree][last.reqs[1].task] > 0
  /\ tree_state[MainTree] = kDeTStateReady
  /\ Len(last.marked) < Cardinality(Reachable(MainTree))

\* C19: over any sequence of AssociateNode, AssignRoot, Prepare and Launch
\* calls on a tree, the task group has accepted at most one spawn request for
\* each non-inlined node.
C19_OneTaskPerNode ==
  \A t \in Trees : \A n \in Ops : ~inlined(n) => tg[t][n] <= 1

\* C20: whenever the tree state is Ready or Executing, prepare_flags_ is zero,
\* also after an aborted Prepare was run again, and from then on no operation
\* changes prepare_flags_.
C20_FlagsZeroAndFrozenOnceReady ==
  [][\A t \in Trees :
       /\ tree_state'[t] \in {kDeTStateReady, kDeTStateExecuting}
            => prepare_flags'[t] = 0
       /\ tree_state[t] \in {kDeTStateReady, kDeTStateExecuting}
            => prepare_flags'[t] = prepare_flags[t]]_vars
====
